---- MODULE Spec2Model ----
(***************************************************************************)
(* A model of bubbles.cpp: the command line scan, the fatal setup steps,   *)
(* the frame loop (resize block, T upload, instanced draw, blit, present,  *)
(* FPS report, event poll), the vertex shader's position fold and the      *)
(* fragment shader's image store.                                          *)
(*                                                                         *)
(* Real-valued shader quantities are carried as exact integers (scaled     *)
(* where needed). The clock is read at whole seconds; now() and the        *)
(* arithmetic of the FPS report are carried out in IEEE double.            *)
(***************************************************************************)
EXTENDS Integers, Sequences, FiniteSets, TLC

VARIABLES
    pc,             \* position of main()
    argv, argi,     \* the command line and the scan index i
    hint,           \* GLFW_ANGLE_PLATFORM_TYPE init hint
    glfwAlive,      \* glfwInit succeeded and glfwTerminate not yet called
    window,         \* the GLFWwindow exists
    gladLoaded,     \* GPU entry points resolved
    attached,       \* shader stages attached to the program
    compiled,       \* shader stages handed to glCompileShader, in order
    linkTried,      \* glLinkProgram was called
    linked,         \* the program linked
    errOut,         \* stderr, one entry per diagnostic
    ret,            \* how the process ended: <<"return", r>> from main(),
                    \* <<"signal", s>> when killed, <<>> while running
    shouldClose,    \* the window's close flag
    width, height,  \* framebuffer size queried in this iteration
    lastWidth, lastHeight,
    tex,            \* the texture name held by main()
    textures,       \* live texture objects: name -> storage size or NoStorage
    imageUnit,      \* texture bound to image unit 0
    blitSource,     \* texture attached to blitFBO
    viewport,       \* glViewport size
    uniformWindow,  \* the "window" uniform
    uniformT,       \* the "T" uniform
    announced,      \* number of "rendering n bubbles at w x h" lines printed
    created,        \* number of glGenTextures/glTexStorage2D recreations
    totalFrames, frames,
    start,          \* the double held by main()'s start
    clock,          \* the clock at its last reading, in seconds since its epoch
    startClock,     \* the clock reading start was taken at
    draws, blits, presents,  \* GPU commands issued so far
    lastDrawT,      \* <<T>> seen by the most recent instanced draw, <<>> before
    fpsLines,       \* number of "<fps> fps" lines printed
    lastFps,        \* <<v>>: the most recent fps value printed, in millionths
    resetAt,        \* number of presented frames at the last accumulator reset
    bubble,         \* fold: one bubble instance (x, y, r, dx, dy)
    foldWin,        \* fold: the window uniform
    foldT,          \* fold: the T uniform
    center,         \* fold: the folded center computed by the vertex shader
    incolor,        \* store: instance -> color attribute, in quarters
    image,          \* store: the off-screen image, pixel -> packed value
    stored,         \* store: executed fragment (instance, pixel) -> value stored
    lastStore       \* store: pixel -> <<instance>> of the latest store, or <<>>

mainVars == <<pc, argv, argi, hint, glfwAlive, window, gladLoaded, attached,
              compiled, linkTried, linked, errOut, ret, shouldClose, width,
              height, lastWidth, lastHeight, tex, textures, imageUnit,
              blitSource, viewport, uniformWindow, uniformT, announced,
              created, totalFrames, frames, start, clock, startClock,
              draws, blits, presents, lastDrawT, fpsLines, lastFps, resetAt>>
foldVars == <<bubble, foldWin, foldT, center>>
storeVars == <<incolor, image, stored, lastStore>>
vars == <<mainVars, foldVars, storeVars>>

setupVars == <<glfwAlive, window, gladLoaded, attached, compiled, linkTried,
               linked, errOut, ret>>
argVars == <<argv, argi, hint>>
glVars == <<tex, textures, imageUnit, blitSource, viewport, uniformWindow,
            announced, created, lastWidth, lastHeight, width, height>>
timerVars == <<frames, start, clock, startClock, fpsLines, lastFps, resetAt>>
drawVars == <<uniformT, totalFrames, draws, blits, presents, lastDrawT>>

----------------------------------------------------------------------------
(* Bounds of the model *)
MaxArgs == 3
MaxDim == 2
MaxFrames == 3
MaxClock == 17
MaxStep == 2
MaxLogLines == 2
MaxTexName == 2
MaxR == 2
MaxV == 2
MaxT == 4
NumInst == 2

(* Program constants *)
ReportInterval == 2
FloatMantissaBits == 24
DoubleBits == 53
NanoPerSec == 1000000000
Micro == 1000000
LimbBits == 15
Q == 4
UnormMax == 255

NoStorage == <<-1, -1>>

Dims == 0..MaxDim

----------------------------------------------------------------------------
(* Command line scan: main(), the loop over argv *)

Flags == {"--gl", "--gles", "--d3d", "--vk", "--mtl"}
ArgAlphabet == Flags \cup {"--glx", "vk"}
DefaultPlatform == "VULKAN"

\* The chain with the --vk branch left out.
PlatformAfterNoVk(a, cur) ==
    IF a = "--gl" THEN "OPENGL"
    ELSE IF a = "--gles" THEN "OPENGLES"
    ELSE IF a = "--d3d" THEN "D3D11"
    ELSE IF a = "--mtl" THEN "METAL"
    ELSE cur

\* The if / else-if chain on strcmp(argv[i], ...): the platform hint after
\* argument a has been looked at, given the hint before it.
PlatformAfter(a, cur) ==
    IF a = "--gl" THEN "OPENGL"
    ELSE IF a = "--gles" THEN "OPENGLES"
    ELSE IF a = "--d3d" THEN "D3D11"
    ELSE IF a = "--vk" THEN "VULKAN"
    ELSE IF a = "--mtl" THEN "METAL"
    ELSE cur

argc == Len(argv)

\* argv[i] of the source is argv[i + 1] here: sequences start at 1.
ScanArg ==
    /\ pc = "args"
    /\ argi < argc
    /\ hint' = PlatformAfter(argv[argi + 1], hint)
    /\ argi' = argi + 1
    /\ UNCHANGED <<pc, argv, setupVars, shouldClose, glVars, timerVars,
                   drawVars, foldVars, storeVars>>

ScanEnd ==
    /\ pc = "args"
    /\ argi >= argc
    /\ pc' = "glfwInit"
    /\ UNCHANGED <<argVars, setupVars, shouldClose, glVars, timerVars,
                   drawVars, foldVars, storeVars>>

----------------------------------------------------------------------------
(* Setup: each step either succeeds or is fatal *)

Diag(m, k) == [msg |-> m, lines |-> k]

VsLines == 20
FsLines == 15
SourceLines(type) == IF type = "vs" THEN VsLines ELSE FsLines

\* The status the parent process sees: the low byte of the value returned
\* from main(), 128 + the signal number for a process killed by a signal.
ExitStatus(e) ==
    IF e[1] = "return" THEN e[2] % 256
    ELSE IF e[2] = "SIGABRT" THEN 128 + 6
    ELSE 128 + 11

Fatal(r, diags) ==
    /\ errOut' = errOut \o diags
    /\ ret' = <<"return", r>>
    /\ pc' = "done"

\* The process dies of signal sig after printing diags.
Crash(sig, diags) ==
    /\ errOut' = errOut \o diags
    /\ ret' = <<"signal", sig>>
    /\ pc' = "done"

\* Lines of the driver's info log; 0 is GL_INFO_LOG_LENGTH = 0, no log.
LogLines == 0..MaxLogLines

GlfwInit ==
    /\ pc = "glfwInit"
    /\ \E ok \in BOOLEAN :
        IF ok
        THEN /\ glfwAlive' = TRUE
             /\ pc' = "createWindow"
             /\ UNCHANGED <<errOut, ret>>
        ELSE /\ Fatal(1, <<Diag("Failed to initialize glfw.", 1)>>)
             /\ UNCHANGED glfwAlive
    /\ UNCHANGED <<argVars, window, gladLoaded, attached, compiled, linkTried,
                   linked, shouldClose, glVars, timerVars, drawVars, foldVars,
                   storeVars>>

CreateWindow ==
    /\ pc = "createWindow"
    /\ \E ok \in BOOLEAN :
        IF ok
        THEN /\ window' = TRUE
             /\ pc' = "gladLoad"
             /\ UNCHANGED <<glfwAlive, errOut, ret>>
        ELSE /\ glfwAlive' = FALSE
             /\ Fatal(-1, <<Diag("Failed to create window.", 1)>>)
             /\ UNCHANGED window
    /\ UNCHANGED <<argVars, gladLoaded, attached, compiled, linkTried, linked,
                   shouldClose, glVars, timerVars, drawVars, foldVars,
                   storeVars>>

GladLoad ==
    /\ pc = "gladLoad"
    /\ \E ok \in BOOLEAN :
        IF ok
        THEN /\ gladLoaded' = TRUE
             /\ pc' = "compileVS"
             /\ UNCHANGED <<errOut, ret>>
        ELSE /\ Fatal(-1, <<Diag("Failed to initialize glad.", 1)>>)
             /\ UNCHANGED gladLoaded
    /\ UNCHANGED <<argVars, glfwAlive, window, attached, compiled, linkTried,
                   linked, shouldClose, glVars, timerVars, drawVars, foldVars,
                   storeVars>>

\* A compile step whose failure is reported but not acted on.
CompileAndAttachIgnoring(type, ok, next) ==
    /\ compiled' = Append(compiled, type)
    /\ pc' = next
    /\ UNCHANGED ret
    /\ IF ok
       THEN /\ attached' = attached \cup {type}
            /\ UNCHANGED errOut
       ELSE /\ errOut' = errOut \o <<Diag("Failed to compile shader", 1)>>
            /\ UNCHANGED attached

\* compile_and_attach_shader(program, type, source) and the || chain of main():
\* a false return makes main() return -1 without evaluating what follows.
\* With an empty info log, &infoLog[0] indexes an empty vector: undefined.
\* A build with library assertions aborts there, before anything is printed;
\* otherwise the null pointer reaches fprintf("%s\n"), which prints one line
\* or faults after the heading and the listing are out.
CompileAndAttach(type, ok, next) ==
    /\ compiled' = Append(compiled, type)
    /\ IF ok
       THEN /\ attached' = attached \cup {type}
            /\ pc' = next
            /\ UNCHANGED <<errOut, ret>>
       ELSE /\ UNCHANGED attached
            /\ \E log \in LogLines :
                IF log > 0
                THEN Fatal(-1, <<Diag("Failed to compile shader", 1),
                                 Diag("listing", SourceLines(type)),
                                 Diag("infolog", log)>>)
                ELSE \/ Crash("SIGABRT", <<>>)
                     \/ Fatal(-1, <<Diag("Failed to compile shader", 1),
                                     Diag("listing", SourceLines(type)),
                                     Diag("infolog", 1)>>)
                     \/ Crash("SIGSEGV",
                              <<Diag("Failed to compile shader", 1),
                                Diag("listing", SourceLines(type))>>)

CompileVS ==
    /\ pc = "compileVS"
    /\ \E ok \in BOOLEAN : CompileAndAttach("vs", ok, "compileFS")
    /\ UNCHANGED <<argVars, glfwAlive, window, gladLoaded, linkTried, linked,
                   shouldClose, glVars, timerVars, drawVars, foldVars,
                   storeVars>>

CompileFS ==
    /\ pc = "compileFS"
    /\ \E ok \in BOOLEAN : CompileAndAttach("fs", ok, "link")
    /\ UNCHANGED <<argVars, glfwAlive, window, gladLoaded, linkTried, linked,
                   shouldClose, glVars, timerVars, drawVars, foldVars,
                   storeVars>>

\* link_program(program) as the last operand of the || chain. The log shares
\* its first line with the message. With an empty info log &infoLog[0] is
\* undefined, as in compile_and_attach_shader.
LinkProgram ==
    /\ pc = "link"
    /\ linkTried' = TRUE
    /\ \E ok \in BOOLEAN :
        IF ok
        THEN /\ linked' = TRUE
             /\ pc' = "scene"
             /\ UNCHANGED <<errOut, ret>>
        ELSE /\ UNCHANGED linked
             /\ \E log \in LogLines :
                 IF log > 0
                 THEN Fatal(-1, <<Diag("Failed to link program", log)>>)
                 ELSE \/ Crash("SIGABRT", <<>>)
                      \/ Fatal(-1, <<Diag("Failed to link program", 1)>>)
                      \/ Crash("SIGSEGV", <<>>)
    /\ UNCHANGED <<argVars, glfwAlive, window, gladLoaded, attached, compiled,
                   shouldClose, glVars, timerVars, drawVars, foldVars,
                   storeVars>>

----------------------------------------------------------------------------
(* The frame loop *)

ClockSteps == (0 - 1)..MaxStep

\* static_cast<float>(k) for k >= 0: round to nearest, ties to even, with a
\* significand of FloatMantissaBits bits.
RECURSIVE Ulp(_, _)
Ulp(k, u) == IF k < (2 ^ FloatMantissaBits) * u THEN u ELSE Ulp(k, 2 * u)

ToFloat(k) ==
    LET u == Ulp(k, 1)
        q == k \div u
        r == k % u
    IN  IF 2 * r > u \/ (2 * r = u /\ q % 2 = 1) THEN (q + 1) * u ELSE q * u

\* The frame counter of a run that has drawn 2^24 - 1 frames: the last
\* stretch in which every counter value still has a float of its own.
LongRunStart == (2 ^ FloatMantissaBits) - 1

FrameCapReached == totalFrames \in {MaxFrames, LongRunStart + MaxFrames}

(* Natural numbers of any size: limbs of LimbBits bits, least significant  *)
(* first, no zero limb at the top; <<>> is 0.                               *)
Base == 2 ^ LimbBits

RECURSIVE BigOfInt(_)
BigOfInt(n) == IF n = 0 THEN <<>> ELSE <<n % Base>> \o BigOfInt(n \div Base)

RECURSIVE BigToInt(_)
BigToInt(a) == IF a = <<>> THEN 0 ELSE a[1] + Base * BigToInt(Tail(a))

RECURSIVE BigTrim(_)
BigTrim(a) ==
    IF a # <<>> /\ a[Len(a)] = 0 THEN BigTrim(SubSeq(a, 1, Len(a) - 1)) ELSE a

Limb(a, i) == IF i <= Len(a) THEN a[i] ELSE 0

RECURSIVE BigCmpFrom(_, _, _)
BigCmpFrom(a, b, i) ==
    IF i = 0 THEN 0
    ELSE IF a[i] < b[i] THEN 0 - 1
    ELSE IF a[i] > b[i] THEN 1
    ELSE BigCmpFrom(a, b, i - 1)

\* -1, 0, 1 as a < b, a = b, a > b
BigCmp(a, b) ==
    IF Len(a) < Len(b) THEN 0 - 1
    ELSE IF Len(a) > Len(b) THEN 1
    ELSE BigCmpFrom(a, b, Len(a))

RECURSIVE BigAddFrom(_, _, _, _)
BigAddFrom(a, b, i, carry) ==
    IF i > Len(a) /\ i > Len(b) THEN BigOfInt(carry)
    ELSE LET s == Limb(a, i) + Limb(b, i) + carry
         IN  <<s % Base>> \o BigAddFrom(a, b, i + 1, s \div Base)

BigAdd(a, b) == BigAddFrom(a, b, 1, 0)

RECURSIVE BigSubFrom(_, _, _, _)
BigSubFrom(a, b, i, borrow) ==
    IF i > Len(a) THEN <<>>
    ELSE LET s == a[i] - Limb(b, i) - borrow
         IN  <<s % Base>> \o BigSubFrom(a, b, i + 1, IF s < 0 THEN 1 ELSE 0)

\* a - b, for a >= b
BigSub(a, b) == BigTrim(BigSubFrom(a, b, 1, 0))

RECURSIVE BigMulSmallFrom(_, _, _, _)
BigMulSmallFrom(a, s, i, carry) ==
    IF i > Len(a) THEN BigOfInt(carry)
    ELSE LET p == a[i] * s + carry
         IN  <<p % Base>> \o BigMulSmallFrom(a, s, i + 1, p \div Base)

\* a * s, for 0 <= s < Base
BigMulSmall(a, s) ==
    IF s = 0 THEN <<>> ELSE IF s = 1 THEN a ELSE BigMulSmallFrom(a, s, 1, 0)

ShiftLimb(a) == IF a = <<>> THEN <<>> ELSE <<0>> \o a

RECURSIVE BigMul(_, _)
BigMul(a, b) ==
    IF a = <<>> \/ b = <<>> THEN <<>>
    ELSE BigAdd(BigMulSmall(a, b[1]), ShiftLimb(BigMul(a, Tail(b))))

RECURSIVE BigDivSmallFrom(_, _, _, _)
BigDivSmallFrom(a, s, i, rem) ==
    IF i = 0 THEN <<>>
    ELSE LET cur == rem * Base + a[i]
         IN  BigDivSmallFrom(a, s, i - 1, cur % s) \o <<cur \div s>>

\* a \div s, for 0 < s < Base
BigDivSmall(a, s) ==
    IF s = 1 THEN a ELSE BigTrim(BigDivSmallFrom(a, s, Len(a), 0))

\* a * 2^k
BigShl(a, k) ==
    IF a = <<>> \/ k = 0 THEN a
    ELSE [i \in 1..(k \div LimbBits) |-> 0] \o BigMulSmall(a, 2 ^ (k % LimbBits))

\* a \div 2^k
BigShr(a, k) ==
    IF k \div LimbBits >= Len(a) THEN <<>>
    ELSE BigDivSmall(SubSeq(a, (k \div LimbBits) + 1, Len(a)),
                     2 ^ (k % LimbBits))

RECURSIVE IntBitLen(_)
IntBitLen(n) == IF n = 0 THEN 0 ELSE 1 + IntBitLen(n \div 2)

\* The number of bits of a: the k with 2^(k - 1) <= a < 2^k, 0 for a = 0.
BigBitLen(a) ==
    IF a = <<>> THEN 0 ELSE LimbBits * (Len(a) - 1) + IntBitLen(a[Len(a)])

\* The largest d in lo..hi with b * d <= r, given that b * lo <= r.
RECURSIVE QuotientLimb(_, _, _, _)
QuotientLimb(r, b, lo, hi) ==
    IF lo = hi THEN lo
    ELSE LET mid == (lo + hi + 1) \div 2
         IN  IF BigCmp(BigMulSmall(b, mid), r) <= 0
             THEN QuotientLimb(r, b, mid, hi)
             ELSE QuotientLimb(r, b, lo, mid - 1)

\* Long division, limb by limb from limb i of a down, with the quotient q
\* and the remainder r of the limbs above: <<quotient, remainder>>.
RECURSIVE BigDivFrom(_, _, _, _, _)
BigDivFrom(a, b, i, q, r) ==
    IF i = 0 THEN <<BigTrim(q), r>>
    ELSE LET r2 == BigAdd(ShiftLimb(r), BigOfInt(a[i]))
             d == QuotientLimb(r2, b, 0, Base - 1)
         IN  BigDivFrom(a, b, i - 1, <<d>> \o q, BigSub(r2, BigMulSmall(b, d)))

\* <<a \div b, a % b>>, for b > 0
BigDivMod(a, b) == BigDivFrom(a, b, Len(a), <<>>, <<>>)

\* n * 2^(-k) rounded to an integer, to nearest, ties to even.
BigRoundShr(n, k) ==
    IF k = 0 THEN n
    ELSE LET q == BigShr(n, k)
             c == BigCmp(BigSub(n, BigShl(q, k)), BigShl(<<1>>, k - 1))
         IN  IF c > 0 \/ (c = 0 /\ Limb(q, 1) % 2 = 1)
             THEN BigAdd(q, <<1>>) ELSE q

(* IEEE double: the value m * 2^e, negated when neg, with m below          *)
(* 2^DoubleBits. Kept with m odd (0 as m = 0, e = 0), so that equal values  *)
(* are equal records. The exponent range is not limited: every value the   *)
(* loop computes is far from overflow and underflow.                        *)
RECURSIVE TrailingZeros(_)
TrailingZeros(n) == IF n % 2 = 1 THEN 0 ELSE 1 + TrailingZeros(n \div 2)

RECURSIVE DNorm(_, _, _)
DNorm(neg, m, e) ==
    IF m = <<>> THEN [neg |-> FALSE, m |-> <<>>, e |-> 0]
    ELSE IF m[1] = 0 THEN DNorm(neg, Tail(m), e + LimbBits)
    ELSE LET z == TrailingZeros(m[1])
         IN  [neg |-> neg, m |-> BigDivSmall(m, 2 ^ z), e |-> e + z]

\* The double nearest to n * 2^e (ties to even), for a natural n of any size:
\* the rounding every double operation ends with.
RoundToDouble(neg, n, e) ==
    LET k == BigBitLen(n) - DoubleBits
    IN  IF k <= 0 THEN DNorm(neg, n, e)
        ELSE DNorm(neg, BigRoundShr(n, k), e + k)

\* Conversion of an int to double.
DOfInt(n) == RoundToDouble(n < 0, BigOfInt(IF n < 0 THEN 0 - n ELSE n), 0)

\* a * b in double
DMul(a, b) == RoundToDouble(a.neg # b.neg, BigMul(a.m, b.m), a.e + b.e)

\* a / b in double, b # 0. The quotient is taken to DoubleBits + 3 bits or
\* more, with one more bit that tells whether the division left a remainder.
DDiv(a, b) ==
    LET want == (DoubleBits + 3) + BigBitLen(b.m) - BigBitLen(a.m)
        s == IF want > 0 THEN want ELSE 0
        qr == BigDivMod(BigShl(a.m, s), b.m)
        n == BigAdd(BigShl(qr[1], 1), IF qr[2] = <<>> THEN <<>> ELSE <<1>>)
    IN  RoundToDouble(a.neg # b.neg, n, (a.e - b.e) - (s + 1))

\* The two significands on the common exponent: <<A, B, e>>.
Aligned(a, b) ==
    LET e == IF a.e < b.e THEN a.e ELSE b.e
    IN  <<BigShl(a.m, a.e - e), BigShl(b.m, b.e - e), e>>

\* a - b in double
DSub(a, b) ==
    LET al == Aligned(a, b)
        c == BigCmp(al[1], al[2])
    IN  IF a.neg # b.neg
        THEN RoundToDouble(a.neg, BigAdd(al[1], al[2]), al[3])
        ELSE IF c >= 0
        THEN RoundToDouble(a.neg, BigSub(al[1], al[2]), al[3])
        ELSE RoundToDouble(~a.neg, BigSub(al[2], al[1]), al[3])

\* a >= b on doubles
DGeq(a, b) ==
    LET al == Aligned(a, b)
        c == BigCmp(al[1], al[2])
    IN  IF a.neg # b.neg THEN b.neg
        ELSE IF a.neg THEN c <= 0 ELSE c >= 0

\* The double literal 1e-9: the double nearest to 1 / 10^9.
Nano == DDiv(DOfInt(1), DOfInt(NanoPerSec))

\* now() when the clock stands c whole seconds after its epoch: the count of
\* nanoseconds, converted to double and multiplied by 1e-9.
Now(c) ==
    DMul(RoundToDouble(FALSE, BigMul(BigOfInt(c), BigOfInt(NanoPerSec)), 0),
         Nano)

\* now() at each reading of the clock within the bound.
Readings == [c \in 0..MaxClock |-> Now(c)]

\* printf("%f", v) for a double v >= 0: the value printed, in millionths.
\* printf rounds the exact value of the double to six decimals, ties to even.
FormatF(v) ==
    LET n == BigMul(v.m, BigOfInt(Micro))
    IN  BigToInt(IF v.e >= 0 THEN BigShl(n, v.e) ELSE BigRoundShr(n, 0 - v.e))

\* Generate bubbles .. int lastWidth = 0, lastHeight = 0: the state main()
\* enters the loop with.
SceneSetup ==
    /\ pc = "scene"
    /\ \E d \in ClockSteps :
        /\ 0 <= clock + d /\ clock + d <= MaxClock
        /\ clock' = clock + d
        /\ start' = Readings[clock + d]
        /\ startClock' = clock + d
    /\ totalFrames' = 0
    /\ frames' = 0
    /\ tex' = 0
    /\ lastWidth' = 0
    /\ lastHeight' = 0
    /\ pc' = "head"
    /\ UNCHANGED <<argVars, setupVars, shouldClose, width, height, textures,
                   imageUnit, blitSource, viewport, uniformWindow, announced,
                   created, uniformT, draws, blits, presents, lastDrawT,
                   fpsLines, lastFps, resetAt, foldVars, storeVars>>

\* while (!glfwWindowShouldClose(window))
LoopHead ==
    /\ pc = "head"
    /\ IF shouldClose
       THEN pc' = "terminate"
       ELSE /\ ~FrameCapReached
            /\ pc' = "query"
    /\ UNCHANGED <<argVars, setupVars, shouldClose, glVars, timerVars,
                   drawVars, foldVars, storeVars>>

\* glDeleteTextures(1, &name): name 0 is silently ignored.
DeleteTexture(ts, name) == [k \in (DOMAIN ts) \ {name} |-> ts[k]]

\* glGenTextures(1, &name): the names the driver may hand out, any name
\* other than 0 that is not in use.
TexNames == 1..MaxTexName
GenTexture(ts) == TexNames \ DOMAIN ts

\* glTexStorage2D(GL_TEXTURE_2D, 1, GL_RGBA8, w, h): GL_INVALID_VALUE and no
\* storage when a dimension is below 1.
TexStorage(w, h) == IF w >= 1 /\ h >= 1 THEN <<w, h>> ELSE NoStorage

\* The test with && in place of ||.
SizeChangedBoth(w, h) == lastWidth # w /\ lastHeight # h

\* if (lastWidth != width || lastHeight != height)
SizeChanged(w, h) == lastWidth # w \/ lastHeight # h

\* glfwGetFramebufferSize and the resize block.
QueryResize ==
    /\ pc = "query"
    /\ \E w \in Dims, h \in Dims :
        /\ width' = w
        /\ height' = h
        /\ IF SizeChanged(w, h)
           THEN LET kept == DeleteTexture(textures, tex)
                IN  \E name \in GenTexture(kept) :
                    /\ announced' = announced + 1
                    /\ viewport' = <<w, h>>
                    /\ uniformWindow' = <<w, h>>
                    /\ tex' = name
                    /\ textures' = [k \in (DOMAIN kept) \cup {name} |->
                                      IF k = name THEN TexStorage(w, h)
                                      ELSE kept[k]]
                    /\ created' = created + 1
                    /\ blitSource' = name
                    /\ imageUnit' = name
                    /\ lastWidth' = w
                    /\ lastHeight' = h
           ELSE UNCHANGED <<announced, viewport, uniformWindow, tex, textures,
                            created, blitSource, imageUnit, lastWidth,
                            lastHeight>>
    /\ pc' = "upload"
    /\ UNCHANGED <<argVars, setupVars, shouldClose, timerVars, drawVars,
                   foldVars, storeVars>>

\* glUniform1f(uniformT, static_cast<float>(totalFrames++))
UploadT ==
    /\ pc = "upload"
    /\ uniformT' = ToFloat(totalFrames)
    /\ totalFrames' = totalFrames + 1
    /\ pc' = "draw"
    /\ UNCHANGED <<argVars, setupVars, shouldClose, glVars, timerVars, draws,
                   blits, presents, lastDrawT, foldVars, storeVars>>

\* glDrawArraysInstanced(GL_TRIANGLE_STRIP, 0, 4, n)
DrawInstanced ==
    /\ pc = "draw"
    /\ draws' = draws + 1
    /\ lastDrawT' = <<uniformT>>
    /\ pc' = "blit"
    /\ UNCHANGED <<argVars, setupVars, shouldClose, glVars, timerVars,
                   uniformT, totalFrames, blits, presents, foldVars,
                   storeVars>>

\* glBlitFramebuffer(0, 0, width, height, ...)
Blit ==
    /\ pc = "blit"
    /\ blits' = blits + 1
    /\ pc' = "swap"
    /\ UNCHANGED <<argVars, setupVars, shouldClose, glVars, timerVars,
                   uniformT, totalFrames, draws, presents, lastDrawT,
                   foldVars, storeVars>>

\* glfwSwapBuffers(window)
SwapBuffers ==
    /\ pc = "swap"
    /\ presents' = presents + 1
    /\ pc' = "fps"
    /\ UNCHANGED <<argVars, setupVars, shouldClose, glVars, timerVars,
                   uniformT, totalFrames, draws, blits, lastDrawT, foldVars,
                   storeVars>>

\* The int 2 of the comparison, converted to double.
Interval == DOfInt(ReportInterval)

\* if (seconds >= 2)
ReportDue(seconds) == DGeq(seconds, Interval)

\* ++frames; end = now(); seconds = end - start; the report and the reset.
FpsStep ==
    /\ pc = "fps"
    /\ \E d \in ClockSteps :
        LET end == Readings[clock + d]
            seconds == DSub(end, start)
        IN  /\ 0 <= clock + d /\ clock + d <= MaxClock
            /\ clock' = clock + d
            /\ IF ReportDue(seconds)
               THEN /\ lastFps' =
                         <<FormatF(DDiv(DOfInt(frames + 1), seconds))>>
                    /\ fpsLines' = fpsLines + 1
                    /\ frames' = 0
                    /\ start' = end
                    /\ startClock' = clock + d
                    /\ resetAt' = presents
               ELSE /\ frames' = frames + 1
                    /\ UNCHANGED <<lastFps, fpsLines, start, startClock,
                                   resetAt>>
    /\ pc' = "poll"
    /\ UNCHANGED <<argVars, setupVars, shouldClose, glVars, drawVars,
                   foldVars, storeVars>>

\* glfwPollEvents(): a pending close request sets the window's close flag.
PollEvents ==
    /\ pc = "poll"
    /\ \E closeRequested \in BOOLEAN :
        shouldClose' = (shouldClose \/ closeRequested)
    /\ pc' = "head"
    /\ UNCHANGED <<argVars, setupVars, glVars, timerVars, drawVars, foldVars,
                   storeVars>>

\* Leaving the loop without glfwTerminate().
TerminateNoRelease ==
    /\ pc = "terminate"
    /\ ret' = <<"return", 0>>
    /\ pc' = "done"
    /\ UNCHANGED <<argVars, glfwAlive, window, gladLoaded, attached, compiled,
                   linkTried, linked, errOut, shouldClose, glVars, timerVars,
                   drawVars, foldVars, storeVars>>

\* glfwTerminate() after the loop (the context and its texture go with the
\* window); main() then returns 0.
Terminate ==
    /\ pc = "terminate"
    /\ glfwAlive' = FALSE
    /\ window' = FALSE
    /\ textures' = DeleteTexture(textures, tex)
    /\ ret' = <<"return", 0>>
    /\ pc' = "done"
    /\ UNCHANGED <<argVars, gladLoaded, attached, compiled, linkTried, linked,
                   errOut, shouldClose, tex, imageUnit, blitSource, viewport,
                   uniformWindow, announced, created, lastWidth, lastHeight,
                   width, height, timerVars, drawVars, foldVars, storeVars>>

----------------------------------------------------------------------------
(* Vertex shader: the position fold *)

Abs(x) == IF x < 0 THEN 0 - x ELSE x

\* C fmod: x - y * trunc(x / y), the sign of x.
ModTrunc(x, y) ==
    LET q == Abs(x) \div Abs(y)
    IN  IF x < 0 THEN 0 - (Abs(x) - Abs(y) * q) ELSE x - Abs(y) * q

\* GLSL mod(x, y) = x - y * floor(x / y)
Mod(x, y) == x - y * (x \div y)

\* center = bubble.xy + speed * T; span = window - 2.0 * r;
\* center = span - abs(span - mod(center - r, span * 2.0)) + r   (one axis)
FoldAxis(c0, v, r, w, T) ==
    LET c == c0 + v * T
        span == w - 2 * r
    IN  span - Abs(span - Mod(c - r, span * 2)) + r

MaxWin == 2 * MaxR + 2

\* mod(x, 0.0) is undefined in GLSL: any value may come out.
FoldOutcomes(c0, v, r, w, T) ==
    IF w - 2 * r = 0 THEN (0 - 1)..(MaxWin + 1) ELSE {FoldAxis(c0, v, r, w, T)}

\* One run of the vertex shader for the bubble instance at the current T.
VertexShader ==
    /\ pc = "vs"
    /\ center = <<>>
    /\ \E cx \in FoldOutcomes(bubble.x, bubble.dx, bubble.r, foldWin[1], foldT),
          cy \in FoldOutcomes(bubble.y, bubble.dy, bubble.r, foldWin[2], foldT) :
        center' = <<cx, cy>>
    /\ UNCHANGED <<mainVars, bubble, foldWin, foldT, storeVars>>

\* The next frame: T goes up by one and the shader runs again.
NextFrame ==
    /\ pc = "vs"
    /\ center # <<>>
    /\ foldT < MaxT
    /\ foldT' = foldT + 1
    /\ center' = <<>>
    /\ UNCHANGED <<mainVars, bubble, foldWin, storeVars>>

----------------------------------------------------------------------------
(* Fragment shader: coverage, shading, packing and the image store *)

Pixels == {<<0, 0>>, <<1, 0>>}
Instances == 1..NumInst

\* Color attributes in quarters: rgb in [.5, 1], alpha in [.75, 1].
Colors == {<<2, 3, 4, 3>>, <<4, 4, 4, 4>>}

\* What the rasterizer hands a fragment: d = dot(coord, coord) and
\* fw = fwidth(f), both in quarters.
FragInputs == {<<0, 1>>, <<3, 4>>, <<8, 1>>}

Clamp(x, lo, hi) == IF x < lo THEN lo ELSE IF x > hi THEN hi ELSE x

\* One component of packUnorm4x8: round(clamp(num / den, 0, 1) * 255)
Unorm8(num, den) ==
    LET c == Clamp(num, 0, den)
    IN  (2 * UnormMax * c + den) \div (2 * den)

\* fs main(): f = d - 1; coverage = clamp(.5 - f / fwidth(f), 0, 1);
\* s = vec4(color.rgb, 1) * (color.a * mix(.25, 1, d) * coverage); the packed
\* value is kept as its four bytes.
FragColor(color, frag) ==
    LET d == frag[1]
        fw == frag[2]
        f == d - Q
        covN == Clamp(fw - 2 * f, 0, 2 * fw)
        covD == 2 * fw
        mixN == 1 * (Q - d) + Q * d
        mixD == Q * Q
        kN == color[4] * mixN * covN
        kD == Q * mixD * covD
    IN  <<Unorm8(color[1] * kN, Q * kD), Unorm8(color[2] * kN, Q * kD),
          Unorm8(color[3] * kN, Q * kD), Unorm8(Q * kN, Q * kD)>>

\* An additive, saturating blend in place of the overwrite.
ImageBlend(img, p, v) ==
    [img EXCEPT ![p] = [c \in 1..4 |-> Clamp(@[c] + v[c], 0, UnormMax)]]

\* imageStore(framebuffer, pixelCoord, v): the texel is overwritten.
ImageStore(img, p, v) == [img EXCEPT ![p] = v]

\* One fragment shader invocation of the instanced draw: instance i at pixel
\* p, in whatever order the GPU runs the invocations.
FragmentStore ==
    /\ pc = "fs"
    /\ \E i \in Instances, p \in Pixels, frag \in FragInputs :
        /\ <<i, p>> \notin DOMAIN stored
        /\ LET v == FragColor(incolor[i], frag)
           IN  /\ image' = ImageStore(image, p, v)
               /\ stored' = [k \in (DOMAIN stored) \cup {<<i, p>>} |->
                               IF k = <<i, p>> THEN v ELSE stored[k]]
               /\ lastStore' = [lastStore EXCEPT ![p] = <<i>>]
    /\ UNCHANGED <<mainVars, foldVars, incolor>>

----------------------------------------------------------------------------
(* Initial states and specifications *)

MainArgv == {<<"bubbles">>, <<"bubbles", "--gl">>}

ArgvSet ==
    {<<"bubbles">> \o s : s \in UNION {[1..k -> ArgAlphabet] : k \in 0..MaxArgs}}

\* main() entered with a command line of A at a time in C on the clock,
\* control at position p.
MainInit(p, A, C) ==
    /\ pc = p
    /\ argv \in A
    /\ argi = 1
    /\ hint = DefaultPlatform
    /\ glfwAlive = FALSE /\ window = FALSE /\ gladLoaded = FALSE
    /\ attached = {} /\ compiled = <<>>
    /\ linkTried = FALSE /\ linked = FALSE
    /\ errOut = <<>> /\ ret = <<>>
    /\ shouldClose = FALSE
    /\ width = 0 /\ height = 0 /\ lastWidth = 0 /\ lastHeight = 0
    /\ tex = 0 /\ textures = <<>> /\ imageUnit = 0 /\ blitSource = 0
    /\ viewport = <<0, 0>> /\ uniformWindow = <<0, 0>> /\ uniformT = 0
    /\ announced = 0 /\ created = 0
    /\ totalFrames = 0 /\ frames = 0
    /\ start = DOfInt(0) /\ clock \in C /\ startClock = 0
    /\ draws = 0 /\ blits = 0 /\ presents = 0 /\ lastDrawT = <<>>
    /\ fpsLines = 0 /\ lastFps = <<>> /\ resetAt = 0

FoldIdle ==
    /\ bubble = [x |-> 0, y |-> 0, r |-> 1, dx |-> 0, dy |-> 0]
    /\ foldWin = <<0, 0>>
    /\ foldT = 0
    /\ center = <<>>

StoreIdle ==
    /\ incolor = [i \in Instances |-> <<4, 4, 4, 4>>]
    /\ image = [p \in Pixels |-> <<0, 0, 0, 0>>]
    /\ stored = <<>>
    /\ lastStore = [p \in Pixels |-> <<>>]

Init == MainInit("args", MainArgv, {0}) /\ FoldIdle /\ StoreIdle

NextLoop ==
    \/ LoopHead \/ QueryResize \/ UploadT \/ DrawInstanced \/ Blit
    \/ SwapBuffers \/ FpsStep \/ PollEvents \/ Terminate

Next ==
    \/ ScanArg \/ ScanEnd
    \/ GlfwInit \/ CreateWindow \/ GladLoad \/ CompileVS \/ CompileFS
    \/ LinkProgram \/ SceneSetup
    \/ NextLoop

Spec == Init /\ [][Next]_vars

\* The command line scan alone, over every command line up to MaxArgs.
InitArgs == MainInit("args", ArgvSet, {0}) /\ FoldIdle /\ StoreIdle
NextArgs == ScanArg \/ ScanEnd
SpecArgs == InitArgs /\ [][NextArgs]_vars

\* A run started at any time on the clock up to MaxClock, from the point
\* where setup has succeeded.
InitClock ==
    /\ pc = "scene"
    /\ argv = <<"bubbles">> /\ argi = 1 /\ hint = DefaultPlatform
    /\ glfwAlive = TRUE /\ window = TRUE /\ gladLoaded = TRUE
    /\ attached = {"vs", "fs"} /\ compiled = <<"vs", "fs">>
    /\ linkTried = TRUE /\ linked = TRUE
    /\ errOut = <<>> /\ ret = <<>>
    /\ shouldClose = FALSE
    /\ width = 0 /\ height = 0 /\ lastWidth = 0 /\ lastHeight = 0
    /\ tex = 0 /\ textures = <<>> /\ imageUnit = 0 /\ blitSource = 0
    /\ viewport = <<0, 0>> /\ uniformWindow = <<0, 0>> /\ uniformT = 0
    /\ announced = 0 /\ created = 0
    /\ totalFrames = 0 /\ frames = 0
    /\ start = DOfInt(0) /\ clock \in 0..MaxClock /\ startClock = 0
    /\ draws = 0 /\ blits = 0 /\ presents = 0 /\ lastDrawT = <<>>
    /\ fpsLines = 0 /\ lastFps = <<>> /\ resetAt = 0
    /\ FoldIdle /\ StoreIdle
NextClock == SceneSetup \/ NextLoop
SpecClock == InitClock /\ [][NextClock]_vars

\* The loop of a run that has already drawn LongRunStart frames at a steady
\* 1 x 1 framebuffer; the counters of printed lines count from here.
InitLongRun ==
    /\ pc = "head"
    /\ argv = <<"bubbles">> /\ argi = 1 /\ hint = DefaultPlatform
    /\ glfwAlive = TRUE /\ window = TRUE /\ gladLoaded = TRUE
    /\ attached = {"vs", "fs"} /\ compiled = <<"vs", "fs">>
    /\ linkTried = TRUE /\ linked = TRUE
    /\ errOut = <<>> /\ ret = <<>>
    /\ shouldClose = FALSE
    /\ width = 1 /\ height = 1 /\ lastWidth = 1 /\ lastHeight = 1
    /\ tex = 1 /\ textures = <<TexStorage(1, 1)>>
    /\ imageUnit = 1 /\ blitSource = 1
    /\ viewport = <<1, 1>> /\ uniformWindow = <<1, 1>>
    /\ uniformT = ToFloat(LongRunStart - 1)
    /\ announced = 1 /\ created = 1
    /\ totalFrames = LongRunStart /\ frames = 0
    /\ start = Now(0) /\ clock = 0 /\ startClock = 0
    /\ draws = LongRunStart /\ blits = LongRunStart
    /\ presents = LongRunStart
    /\ lastDrawT = <<ToFloat(LongRunStart - 1)>>
    /\ fpsLines = 0 /\ lastFps = <<>> /\ resetAt = LongRunStart
    /\ FoldIdle /\ StoreIdle
SpecLongRun == InitLongRun /\ [][NextLoop]_vars

\* The vertex shader over a range of bubbles, windows and frame indices; the
\* y axis gets the x axis' start and the opposite velocity.
InitFold ==
    /\ MainInit("vs", {<<"bubbles">>}, {0})
    /\ \E r \in 1..MaxR, x \in 0..MaxWin, dx \in (0 - MaxV)..MaxV :
        bubble = [x |-> x, y |-> x, r |-> r, dx |-> dx, dy |-> 0 - dx]
    /\ foldWin \in (1..MaxWin) \X (1..MaxWin)
    /\ foldT = 0
    /\ center = <<>>
    /\ StoreIdle
NextFold == VertexShader \/ NextFrame
SpecFold == InitFold /\ [][NextFold]_vars

\* One instanced draw's fragment shader invocations over an image whose
\* contents are whatever was there before (nothing clears it).
InitStore ==
    /\ MainInit("fs", {<<"bubbles">>}, {0})
    /\ FoldIdle
    /\ incolor \in [Instances -> Colors]
    /\ image \in {[p \in Pixels |-> <<0, 0, 0, 0>>],
                  [p \in Pixels |-> <<UnormMax, UnormMax, UnormMax, UnormMax>>]}
    /\ stored = <<>>
    /\ lastStore = [p \in Pixels |-> <<>>]
NextStore == FragmentStore
SpecStore == InitStore /\ [][NextStore]_vars

----------------------------------------------------------------------------
(* Claims *)

LoopPcs == {"head", "query", "upload", "draw", "blit", "swap", "fps", "poll",
            "terminate"}

SetupFailed == pc = "done" /\ ret # <<"return", 0>>
FailedWith(m) == errOut # <<>> /\ errOut[1].msg = m

\* C1: each of the five setup failures ends the process with a non-zero exit
\* status; no frame is drawn, blitted or presented, the frame loop is never
\* entered, and no setup step runs after the failing one (a step has run only
\* if every step before it succeeded).
C1_SetupFailureIsFatal ==
    /\ SetupFailed =>
        /\ ExitStatus(ret) # 0
        /\ draws = 0 /\ blits = 0 /\ presents = 0 /\ totalFrames = 0
        /\ created = 0 /\ ~linked
    /\ errOut # <<>> => SetupFailed
    /\ FailedWith("Failed to initialize glfw.") =>
        ~glfwAlive /\ ~window /\ ~gladLoaded /\ compiled = <<>> /\ ~linkTried
    /\ FailedWith("Failed to create window.") =>
        ~window /\ ~gladLoaded /\ compiled = <<>> /\ ~linkTried
    /\ FailedWith("Failed to initialize glad.") =>
        ~gladLoaded /\ compiled = <<>> /\ ~linkTried
    /\ (gladLoaded /\ ret # <<"return", 0>>) => window
    /\ ~gladLoaded => compiled = <<>>
    /\ "vs" \notin attached => (compiled \in {<<>>, <<"vs">>} /\ ~linkTried)
    /\ "fs" \notin attached =>
        (compiled \in {<<>>, <<"vs">>, <<"vs", "fs">>} /\ ~linkTried)
    /\ "fs" \in attached => "vs" \in attached
    /\ linked => linkTried
    /\ pc \in LoopPcs \cup {"scene"} =>
        /\ errOut = <<>> /\ ret = <<>>
        /\ glfwAlive /\ window /\ gladLoaded /\ linked
        /\ attached = {"vs", "fs"}

C1_Witness ==
    /\ pc = "done"
    /\ FailedWith("Failed to compile shader")
    /\ compiled = <<"vs">> /\ attached = {}
    /\ ~linkTried
    /\ ExitStatus(ret) = 255

\* C2: whenever the windowing subsystem was initialized and a later setup step
\* fails, the subsystem has been terminated by the time main() returns its
\* non-zero status.
C2_ReleasedOnFailure ==
    (pc = "done" /\ ret # <<>> /\ ExitStatus(ret) # 0) => ~glfwAlive

\* C3: an iteration whose queried size equals the previously observed size
\* recreates nothing and announces nothing; one whose size differs performs
\* exactly one recreation (the old image gone, one new one alive), prints
\* exactly one announcement and records the size; no other step of the
\* iteration recreates or announces.
C3_ResizeOnlyOnChange ==
    [][IF pc = "query" /\ pc' = "upload"
       THEN LET prev == IF totalFrames = 0 THEN <<0, 0>> ELSE <<width, height>>
            IN  IF <<width', height'>> = prev
                THEN /\ created' = created /\ announced' = announced
                     /\ tex' = tex /\ textures' = textures
                     /\ <<lastWidth', lastHeight'>> = prev
                ELSE /\ created' = created + 1 /\ announced' = announced + 1
                     /\ DOMAIN textures' = {tex'}
                     /\ <<lastWidth', lastHeight'>> = <<width', height'>>
       ELSE created' = created /\ announced' = announced]_vars

C3_Witness ==
    /\ pc = "upload" /\ totalFrames = 2
    /\ created = 2 /\ announced = 2
    /\ <<width, height>> = <<1, 2>>

\* C4: with window size W > 2r on an axis, the folded center lies in
\* [r, W - r] on that axis, for every frame index, velocity and start.
C4_FoldContained ==
    center # <<>> =>
        \A a \in 1..2 :
            foldWin[a] > 2 * bubble.r =>
                bubble.r <= center[a] /\ center[a] <= foldWin[a] - bubble.r

C4_Witness ==
    /\ center # <<>>
    /\ foldWin[1] > 2 * bubble.r
    /\ bubble.x + bubble.dx * foldT - bubble.r < 0
    /\ foldT > 0
    /\ center[1] > bubble.r

\* The backend the documentation gives for a flag.
BackendOf(flag) ==
    CASE flag = "--gl" -> "OPENGL"
      [] flag = "--gles" -> "OPENGLES"
      [] flag = "--d3d" -> "D3D11"
      [] flag = "--vk" -> "VULKAN"
      [] flag = "--mtl" -> "METAL"

\* The backend named by the last recognized flag among args[2..upto], Vulkan
\* when there is none.
LastFlagBackend(args, upto) ==
    LET idx == {k \in 2..upto : args[k] \in Flags}
    IN  IF idx = {} THEN "VULKAN"
        ELSE BackendOf(args[CHOOSE k \in idx : \A j \in idx : j <= k])

\* C5: after any number of arguments scanned left to right the selection is
\* the backend of the last recognized flag seen so far, Vulkan when none was
\* seen; unrecognized arguments change nothing.
C5_LastFlagWins ==
    pc \in {"args", "glfwInit"} => hint = LastFlagBackend(argv, argi)

C5_Witness ==
    /\ pc = "glfwInit"
    /\ argv = <<"bubbles", "--gl", "--vk", "--mtl">>
    /\ hint = "METAL"

Covering(p) == {i \in Instances : <<i, p>> \in DOMAIN stored}

\* C6: every pixel that one or more instances have stored to holds the value
\* computed by exactly one of them, the one whose store landed last, whatever
\* the order of the stores.
C6_LastStoreWins ==
    \A p \in Pixels :
        Covering(p) # {} =>
            /\ lastStore[p] # <<>>
            /\ lastStore[p][1] \in Covering(p)
            /\ image[p] = stored[<<lastStore[p][1], p>>]

C6_Witness ==
    \E p \in Pixels :
        /\ Covering(p) = Instances
        /\ \A i \in Instances, j \in Instances :
              i # j => stored[<<i, p>>] # stored[<<j, p>>]
        /\ \A i \in Instances : stored[<<i, p>>] # <<0, 0, 0, 0>>
        /\ image[p] = stored[<<lastStore[p][1], p>>]

\* C7: in every iteration the frame accumulator counts the frames presented
\* since the last reset; a report is printed iff the time elapsed on the clock
\* since the last reset is at least 2 seconds, its value is frames / elapsed
\* (to the printed six decimals, exactly F / 2 when the clock advanced exactly
\* 2.0 seconds), and both accumulators are reset right after it (the time
\* origin to the current reading); without a report neither is reset.
C7_FpsReport ==
    [][IF pc = "fps" /\ pc' = "poll"
       THEN LET elapsed == clock' - startClock
                shown == presents - resetAt
            IN  /\ shown = frames + 1
                /\ IF elapsed >= 2
                   THEN /\ fpsLines' = fpsLines + 1
                        /\ 2 * Abs(lastFps'[1] * elapsed - shown * 1000000)
                              <= elapsed
                        /\ elapsed = 2 => 2 * lastFps'[1] = shown * 1000000
                        /\ frames' = 0
                        /\ startClock' = clock' /\ start' = Now(clock')
                   ELSE /\ fpsLines' = fpsLines /\ lastFps' = lastFps
                        /\ frames' = frames + 1
                        /\ startClock' = startClock /\ start' = start
       ELSE /\ fpsLines' = fpsLines /\ lastFps' = lastFps
            /\ pc # "scene" =>
                (frames' = frames /\ startClock' = startClock
                 /\ start' = start)]_vars

\* C8: the close flag is read only at the loop head and set only by the event
\* processing; once it is set nothing more is drawn, blitted or presented,
\* the loop exits at the next check, the windowing subsystem is terminated
\* and main() returns 0; while it is not set the loop does not exit.
C8_CloseEndsRun ==
    [][/\ shouldClose =>
            /\ draws' = draws /\ blits' = blits /\ presents' = presents
            /\ totalFrames' = totalFrames
       /\ shouldClose' # shouldClose => (pc = "poll" /\ pc' = "head")
       /\ (pc = "head" /\ shouldClose) => pc' = "terminate"
       /\ (pc = "head" /\ ~shouldClose) => pc' = "query"
       /\ pc' = "terminate" => (pc = "head" /\ shouldClose)
       /\ pc = "terminate" =>
            /\ pc' = "done" /\ ~glfwAlive'
            /\ ret' = <<"return", 0>> /\ ExitStatus(ret') = 0]_vars

C8_Witness ==
    /\ pc = "done" /\ ret = <<"return", 0>>
    /\ shouldClose /\ ~glfwAlive
    /\ presents = 2 /\ draws = 2 /\ blits = 2

\* C9: every iteration increments the frame counter exactly once, no other
\* step touches the counter or the T uniform, and the T of each draw is the T
\* of the draw before it plus exactly 1.
C9_TStepsByOne ==
    [][/\ (pc = "upload" /\ pc' = "draw") => totalFrames' = totalFrames + 1
       /\ ~(pc = "upload" /\ pc' = "draw") =>
            (totalFrames' = totalFrames /\ uniformT' = uniformT)
       /\ (pc = "draw" /\ pc' = "blit" /\ lastDrawT # <<>>) =>
            uniformT = lastDrawT[1] + 1]_vars

\* C10: at every draw and every blit an off-screen image exists, is the
\* image-store target and the blit source, has the size queried in this
\* iteration, as have the window uniform and the viewport; at most one image
\* is alive.
C10_TargetMatchesFramebuffer ==
    /\ Cardinality(DOMAIN textures) <= 1
    /\ pc \in {"draw", "blit"} =>
        /\ tex # 0
        /\ tex \in DOMAIN textures
        /\ imageUnit = tex /\ blitSource = tex
        /\ textures[tex] = <<width, height>>
        /\ uniformWindow = <<width, height>>
        /\ viewport = <<width, height>>
====
